---------------------------- MODULE Spec2Model ----------------------------
(***************************************************************************)
(* Model of the cache_control crate (src/src/lib.rs): the Cache-Control    *)
(* header parser CacheControl::from_value / CacheControl::from_header.     *)
(*                                                                         *)
(* A &str is a sequence of characters, each a one-character string or,    *)
(* for a character that has no escape, the name of its code point, such as *)
(* "U+000B".  Option<T> is a sequence of length at most one: <<>> is None  *)
(* and <<x>> is Some(x).  A u64 is its canonical sequence of decimal       *)
(* digits (most significant first, <<0>> for zero), because the values of  *)
(* interest exceed the range of TLC integers.                              *)
(***************************************************************************)
EXTENDS Integers, Sequences, FiniteSets, TLC

VARIABLES
    call,     \* the entry point invoked: "from_value" or "from_header"
    input,    \* the &str argument of the call
    dirs,     \* how input was written: one descriptor per comma-separated token
    pc,       \* position of the call: "start", "loop" (for token in tokens), "done"
    tokens,   \* the Vec `tokens` of from_value
    pos,      \* the index in tokens of the token the for loop visits next
    ret,      \* the accumulator `ret` of from_value
    result    \* the Option<CacheControl> returned; None until the call returns

vars == <<call, input, dirs, pc, tokens, pos, ret, result>>

None == <<>>
Some(x) == <<x>>

---------------------------------------------------------------------------
(* Directive names and other literals of the source, as character sequences *)

k_public == <<"p","u","b","l","i","c">>
k_private == <<"p","r","i","v","a","t","e">>
k_no_cache == <<"n","o","-","c","a","c","h","e">>
k_only_if_cached == <<"o","n","l","y","-","i","f","-","c","a","c","h","e","d">>
k_max_age == <<"m","a","x","-","a","g","e">>
k_max_stale == <<"m","a","x","-","s","t","a","l","e">>
k_min_fresh == <<"m","i","n","-","f","r","e","s","h">>
k_must_revalidate == <<"m","u","s","t","-","r","e","v","a","l","i","d","a","t","e">>
k_proxy_revalidate == <<"p","r","o","x","y","-","r","e","v","a","l","i","d","a","t","e">>
k_immutable == <<"i","m","m","u","t","a","b","l","e">>
k_no_store == <<"n","o","-","s","t","o","r","e">>
k_no_transform == <<"n","o","-","t","r","a","n","s","f","o","r","m">>
k_stale_while_revalidate == <<"s","t","a","l","e","-","w","h","i","l","e","-","r","e","v","a","l","i","d","a","t","e">>
k_stale_if_error == <<"s","t","a","l","e","-","i","f","-","e","r","r","o","r">>
k_Cache_Control == <<"C","a","c","h","e","-","C","o","n","t","r","o","l">>

---------------------------------------------------------------------------
(* str::trim, str::split                                                   *)

\* char::is_whitespace, the Unicode White_Space property that str::trim
\* tests: U+0009..U+000D, U+0020, U+0085, U+00A0, U+1680, U+2000..U+200A,
\* U+2028, U+2029, U+202F, U+205F, U+3000.  A character that has no escape
\* in a string is written as the name of its code point.
WhiteSpace ==
    {"\t", "\n", "U+000B", "\f", "\r", " ", "U+0085", "U+00A0", "U+1680",
     "U+2000", "U+2001", "U+2002", "U+2003", "U+2004", "U+2005", "U+2006",
     "U+2007", "U+2008", "U+2009", "U+200A", "U+2028", "U+2029", "U+202F",
     "U+205F", "U+3000"}

RECURSIVE trim_start(_)
trim_start(s) ==
    IF s # <<>> /\ Head(s) \in WhiteSpace THEN trim_start(Tail(s)) ELSE s

RECURSIVE trim_end(_)
trim_end(s) ==
    IF s # <<>> /\ s[Len(s)] \in WhiteSpace
    THEN trim_end(SubSeq(s, 1, Len(s) - 1))
    ELSE s

trim(s) == trim_end(trim_start(s))

\* s.split(pat) for a one-character pattern: always at least one segment,
\* an empty string gives one empty segment.
RECURSIVE split(_, _)
split(s, pat) ==
    IF \E i \in 1..Len(s) : s[i] = pat
    THEN LET i == CHOOSE i \in 1..Len(s) :
                      s[i] = pat /\ \A j \in 1..(i - 1) : s[j] # pat
         IN  <<SubSeq(s, 1, i - 1)>> \o split(SubSeq(s, i + 1, Len(s)), pat)
    ELSE <<s>>

\* .map(|s| s.trim()).collect()
map_trim(segs) == [i \in 1..Len(segs) |-> trim(segs[i])]

---------------------------------------------------------------------------
(* val_d.parse() into the u64 that Duration::new takes                     *)

U64_MAX == <<1,8,4,4,6,7,4,4,0,7,3,7,0,9,5,5,1,6,1,5>>

DigitChars == <<"0","1","2","3","4","5","6","7","8","9">>

\* char::to_digit(10)
to_digit(c) ==
    IF \E d \in 1..10 : DigitChars[d] = c
    THEN Some((CHOOSE d \in 1..10 : DigitChars[d] = c) - 1)
    ELSE None

RECURSIVE LexLeq(_, _)
LexLeq(a, b) ==
    IF a = <<>> THEN TRUE
    ELSE IF Head(a) # Head(b) THEN Head(a) < Head(b)
    ELSE LexLeq(Tail(a), Tail(b))

\* a <= b on canonical digit sequences
Leq(a, b) == Len(a) < Len(b) \/ (Len(a) = Len(b) /\ LexLeq(a, b))

\* n + c for a canonical digit sequence n and a small c
RECURSIVE AddSmall(_, _)
AddSmall(n, c) ==
    IF n = <<>> THEN (IF c = 0 THEN <<>> ELSE <<c>>)
    ELSE LET s == n[Len(n)] + c
         IN  Append(AddSmall(SubSeq(n, 1, Len(n) - 1), s \div 10), s % 10)

\* u64::checked_mul(10)
checked_mul10(n) ==
    LET p == IF n = <<0>> THEN n ELSE Append(n, 0)
    IN  IF Leq(p, U64_MAX) THEN Some(p) ELSE None

\* checked_add as u64::wrapping_add would compute it: the sum modulo 2^64
checked_add_wrapping(n, d) ==
    LET s == IF n = <<0>> THEN <<d>> ELSE AddSmall(n, d)
    IN  IF Leq(s, U64_MAX) THEN Some(s)
        ELSE Some(<<CHOOSE k \in 0..8 : AddSmall(U64_MAX, k + 1) = s>>)

\* u64::checked_add(digit)
checked_add(n, d) ==
    LET s == IF n = <<0>> THEN <<d>> ELSE AddSmall(n, d)
    IN  IF Leq(s, U64_MAX) THEN Some(s) ELSE None

RECURSIVE accumulate(_, _)
accumulate(acc, digits) ==
    IF digits = <<>> THEN Some(acc)
    ELSE LET x == to_digit(Head(digits))
         IN  IF x = None THEN None
             ELSE LET m == checked_mul10(acc)
                  IN  IF m = None THEN None
                      ELSE LET a == checked_add(m[1], x[1])
                           IN  IF a = None THEN None
                               ELSE accumulate(a[1], Tail(digits))

\* <u64 as FromStr>::from_str: Some(n) for Ok(n), None for Err(_)
parse(src) ==
    IF src = <<>> THEN None
    ELSE IF Len(src) = 1 /\ Head(src) \in {"+", "-"} THEN None
    ELSE accumulate(<<0>>, IF Head(src) = "+" THEN Tail(src) ELSE src)

Duration_new(secs, nanos) == [secs |-> secs, nanos |-> nanos]

---------------------------------------------------------------------------
(* CacheControl                                                            *)

Default ==
    [cachability |-> None,
     max_age |-> None,
     s_max_age |-> None,
     max_stale |-> None,
     min_fresh |-> None,
     must_revalidate |-> FALSE,
     proxy_revalidate |-> FALSE,
     immutable |-> FALSE,
     no_store |-> FALSE,
     no_transform |-> FALSE,
     stale_while_revalidate |-> None,
     stale_if_error |-> None]

\* token.split("=").map(|s| s.trim()).collect()
key_value(token) == map_trim(split(token, "="))

\* key_value.first().unwrap()
key_of(token) == key_value(token)[1]

\* key_value.get(1)
val_of(token) ==
    IF Len(key_value(token)) >= 2 THEN Some(key_value(token)[2]) ELSE None

\* The body shared by the five numeric arms: None for `return None`,
\* Some(d) for the Duration the arm stores.
duration_arm(val) ==
    IF val = None THEN None
    ELSE LET p_val == parse(val[1])
         IN  IF p_val = None THEN None
             ELSE Some(Duration_new(p_val[1], 0))

CachabilityKeys == {k_public, k_private, k_no_cache, k_only_if_cached}
NumericKeys ==
    {k_max_age, k_max_stale, k_min_fresh, k_stale_while_revalidate, k_stale_if_error}
FlagKeys ==
    {k_must_revalidate, k_proxy_revalidate, k_immutable, k_no_store, k_no_transform}

\* cachability_arm keeping the first cachability directive instead of the last
cachability_arm_first_wins(r, key) ==
    IF r.cachability # None THEN r
    ELSE CASE key = k_public -> [r EXCEPT !.cachability = Some("Public")]
           [] key = k_private -> [r EXCEPT !.cachability = Some("Private")]
           [] key = k_no_cache -> [r EXCEPT !.cachability = Some("NoCache")]
           [] key = k_only_if_cached ->
                  [r EXCEPT !.cachability = Some("OnlyIfCached")]

\* The arms "public", "private", "no-cache", "only-if-cached"
cachability_arm(r, key) ==
    CASE key = k_public -> [r EXCEPT !.cachability = Some("Public")]
      [] key = k_private -> [r EXCEPT !.cachability = Some("Private")]
      [] key = k_no_cache -> [r EXCEPT !.cachability = Some("NoCache")]
      [] key = k_only_if_cached -> [r EXCEPT !.cachability = Some("OnlyIfCached")]

\* numeric_arm with the "stale-if-error" arm assigning the field of the arm
\* it was copied from
numeric_arm_copied_field(r, key, d) ==
    CASE key = k_max_age -> [r EXCEPT !.max_age = Some(d)]
      [] key = k_max_stale -> [r EXCEPT !.max_stale = Some(d)]
      [] key = k_min_fresh -> [r EXCEPT !.min_fresh = Some(d)]
      [] key = k_stale_while_revalidate ->
             [r EXCEPT !.stale_while_revalidate = Some(d)]
      [] key = k_stale_if_error -> [r EXCEPT !.stale_while_revalidate = Some(d)]

\* numeric_arm with the "max-age" arm assigning s_max_age
numeric_arm_s_max_age(r, key, d) ==
    CASE key = k_max_age -> [r EXCEPT !.s_max_age = Some(d)]
      [] key = k_max_stale -> [r EXCEPT !.max_stale = Some(d)]
      [] key = k_min_fresh -> [r EXCEPT !.min_fresh = Some(d)]
      [] key = k_stale_while_revalidate ->
             [r EXCEPT !.stale_while_revalidate = Some(d)]
      [] key = k_stale_if_error -> [r EXCEPT !.stale_if_error = Some(d)]

\* The arms "max-age", "max-stale", "min-fresh", "stale-while-revalidate",
\* "stale-if-error", once the value has parsed to the Duration d
numeric_arm(r, key, d) ==
    CASE key = k_max_age -> [r EXCEPT !.max_age = Some(d)]
      [] key = k_max_stale -> [r EXCEPT !.max_stale = Some(d)]
      [] key = k_min_fresh -> [r EXCEPT !.min_fresh = Some(d)]
      [] key = k_stale_while_revalidate ->
             [r EXCEPT !.stale_while_revalidate = Some(d)]
      [] key = k_stale_if_error -> [r EXCEPT !.stale_if_error = Some(d)]

\* flag_arm with the "no-store" arm assigning no_transform
flag_arm_copied_field(r, key) ==
    CASE key = k_must_revalidate -> [r EXCEPT !.must_revalidate = TRUE]
      [] key = k_proxy_revalidate -> [r EXCEPT !.proxy_revalidate = TRUE]
      [] key = k_immutable -> [r EXCEPT !.immutable = TRUE]
      [] key = k_no_store -> [r EXCEPT !.no_transform = TRUE]
      [] key = k_no_transform -> [r EXCEPT !.no_transform = TRUE]

\* The arms "must-revalidate", "proxy-revalidate", "immutable", "no-store",
\* "no-transform"
flag_arm(r, key) ==
    CASE key = k_must_revalidate -> [r EXCEPT !.must_revalidate = TRUE]
      [] key = k_proxy_revalidate -> [r EXCEPT !.proxy_revalidate = TRUE]
      [] key = k_immutable -> [r EXCEPT !.immutable = TRUE]
      [] key = k_no_store -> [r EXCEPT !.no_store = TRUE]
      [] key = k_no_transform -> [r EXCEPT !.no_transform = TRUE]

\* match_key with a last arm that rejects the keys it does not know
match_key_strict(r, token) ==
    LET key == key_of(token)
        d   == duration_arm(val_of(token))
    IN  CASE key \in CachabilityKeys -> Some(cachability_arm(r, key))
          [] key \in NumericKeys ->
                 IF d = None THEN None ELSE Some(numeric_arm(r, key, d[1]))
          [] key \in FlagKeys -> Some(flag_arm(r, key))
          [] key = <<>> -> Some(r)
          [] OTHER -> None

\* One iteration of `for token in tokens`, the `match *key`: None when the
\* arm returns None from from_value, Some(r') with the accumulator after the
\* arm otherwise.
match_key(r, token) ==
    LET key == key_of(token)
        d   == duration_arm(val_of(token))
    IN  CASE key \in CachabilityKeys -> Some(cachability_arm(r, key))
          [] key \in NumericKeys ->
                 IF d = None THEN None ELSE Some(numeric_arm(r, key, d[1]))
          [] key \in FlagKeys -> Some(flag_arm(r, key))
          [] OTHER -> Some(r)

RECURSIVE for_tokens(_, _)
for_tokens(r, toks) ==
    IF toks = <<>> THEN Some(r)
    ELSE LET step == match_key(r, Head(toks))
         IN  IF step = None THEN None ELSE for_tokens(step[1], Tail(toks))

\* CacheControl::from_value as a function of its argument
from_value(value) == for_tokens(Default, split(value, ","))

\* let header_value = value.split(":").map(|s| s.trim()).collect()
header_value(value) == map_trim(split(value, ":"))

\* header_rejected accepting any line of two segments or more
header_rejected_at_least_two(value) ==
    \/ Len(header_value(value)) < 2
    \/ header_value(value)[1] # k_Cache_Control

\* header_rejected refusing a header whose value is empty
header_rejected_empty_value(value) ==
    \/ Len(header_value(value)) # 2
    \/ header_value(value)[1] # k_Cache_Control
    \/ header_value(value)[2] = <<>>

\* the test of the `if` in from_header that returns None
header_rejected(value) ==
    \/ Len(header_value(value)) # 2
    \/ header_value(value)[1] # k_Cache_Control

\* CacheControl::from_header as a function of its argument
from_header(value) ==
    IF header_rejected(value) THEN None ELSE from_value(header_value(value)[2])

---------------------------------------------------------------------------
(* The arguments the calls are made with                                    *)

MaxTokens == 2

v_60 == <<"6","0">>
v_abc == <<"a","b","c">>
v_007 == <<"0","0","7">>
v_minus1 == <<"-","1">>
v_plus5 == <<"+","5">>
v_60_eq_5 == <<"6","0","=","5">>
v_u64_max == <<"1","8","4","4","6","7","4","4","0","7","3","7","0","9","5","5","1","6","1","5">>
v_u64_max_plus1 == <<"1","8","4","4","6","7","4","4","0","7","3","7","0","9","5","5","1","6","1","6">>
v_21_digits == <<"1","8","4","4","6","7","4","4","0","7","3","7","0","9","5","5","1","6","1","5","0">>
v_6_colon_0 == <<"6",":","0">>
k_Public == <<"P","u","b","l","i","c">>
k_Max_Age == <<"M","a","x","-","A","g","e">>
k_s_maxage == <<"s","-","m","a","x","a","g","e">>
k_s_max_age == <<"s","-","m","a","x","-","a","g","e">>
h_cache_control == <<"c","a","c","h","e","-","c","o","n","t","r","o","l">>
h_bar == <<"b","a","r">>

\* A token as written: the text before its first '=' and, when it has one,
\* the text after it.
Bare(k) == [key |-> k, val |-> None]
WithVal(k, v) == [key |-> k, val |-> Some(v)]

Tokens ==
    {Bare(k) : k \in CachabilityKeys \cup NumericKeys \cup FlagKeys}
    \cup {Bare(<<>>), Bare(k_Public), Bare(k_s_maxage)}
    \cup {WithVal(k, v) : k \in NumericKeys, v \in {v_60, v_abc}}
    \cup {WithVal(k_max_age, v) :
              v \in {<<>>, v_007, v_minus1, v_plus5, v_60_eq_5,
                     v_u64_max, v_u64_max_plus1, v_21_digits}}
    \cup {WithVal(k_no_store, v_abc), WithVal(k_public, v_60),
          WithVal(k_Max_Age, v_abc), WithVal(k_s_max_age, v_abc),
          WithVal(<<>>, v_60)}
    \cup {Bare(<<" ">> \o k_public \o <<" ">>),
          Bare(<<"\t", "\f">> \o k_no_store),
          WithVal(<<"U+000B">> \o k_max_age, v_abc),
          WithVal(k_max_age, v_60 \o <<"U+00A0">>),
          WithVal(<<" ">> \o k_max_age \o <<" ">>, <<" ">> \o v_60 \o <<" ">>)}

HeaderTokens ==
    {Bare(<<>>), Bare(k_public), Bare(k_private), Bare(k_no_store),
     Bare(k_max_age), WithVal(k_max_age, v_60), WithVal(k_max_age, v_abc),
     WithVal(k_max_age, v_6_colon_0), Bare(<<" ">> \o k_public \o <<" ">>),
     WithVal(k_stale_if_error, v_60),
     WithVal(<<"U+000B">> \o k_max_age, v_abc \o <<"U+0085">>)}

\* What precedes the directive list in the header lines tried
Prefixes ==
    {k_Cache_Control \o <<":">>,
     k_Cache_Control \o <<":", " ">>,
     <<" ">> \o k_Cache_Control \o <<" ", ":", " ">>,
     <<"\f">> \o k_Cache_Control \o <<"U+00A0", ":", "U+2003">>,
     k_Cache_Control \o <<":", ":">>,
     k_Cache_Control,
     h_cache_control \o <<":", " ">>,
     h_bar \o <<":", " ">>,
     <<>>}

Lists(T) == UNION {[1..n -> T] : n \in 1..MaxTokens}

Render(d) == d.key \o (IF d.val = None THEN <<>> ELSE <<"=">> \o d.val[1])

RECURSIVE Join(_)
Join(ds) ==
    IF Len(ds) = 1 THEN Render(ds[1])
    ELSE Render(ds[1]) \o <<",">> \o Join(Tail(ds))

---------------------------------------------------------------------------
(* The calls                                                                *)

Init ==
    /\ call \in {"from_value", "from_header"}
    /\ \/ /\ call = "from_value"
          /\ dirs \in Lists(Tokens)
          /\ input = Join(dirs)
       \/ /\ call = "from_header"
          /\ dirs \in Lists(HeaderTokens)
          /\ \E pre \in Prefixes : input = pre \o Join(dirs)
    /\ pc = "start"
    /\ tokens = <<>>
    /\ pos = 1
    /\ ret = Default
    /\ result = None

\* from_value up to the for loop
CallFromValue ==
    /\ pc = "start"
    /\ call = "from_value"
    /\ ret' = Default
    /\ tokens' = split(input, ",")
    /\ pos' = 1
    /\ pc' = "loop"
    /\ UNCHANGED <<call, input, dirs, result>>

\* from_header up to the for loop of the from_value it calls, or to its
\* own `return None`
CallFromHeader ==
    /\ pc = "start"
    /\ call = "from_header"
    /\ IF header_rejected(input)
       THEN /\ result' = None
            /\ pc' = "done"
            /\ UNCHANGED <<tokens, pos, ret>>
       ELSE /\ ret' = Default
            /\ tokens' = split(header_value(input)[2], ",")
            /\ pos' = 1
            /\ pc' = "loop"
            /\ UNCHANGED result
    /\ UNCHANGED <<call, input, dirs>>

\* One iteration of the for loop
ForToken ==
    /\ pc = "loop"
    /\ pos <= Len(tokens)
    /\ LET step == match_key(ret, tokens[pos])
       IN  IF step = None
           THEN /\ result' = None
                /\ pc' = "done"
                /\ UNCHANGED <<ret, pos>>
           ELSE /\ ret' = step[1]
                /\ pos' = pos + 1
                /\ UNCHANGED <<pc, result>>
    /\ UNCHANGED <<call, input, dirs, tokens>>

\* Some(ret) after the loop
ReturnSome ==
    /\ pc = "loop"
    /\ pos > Len(tokens)
    /\ result' = Some(ret)
    /\ pc' = "done"
    /\ UNCHANGED <<call, input, dirs, tokens, pos, ret>>

Next == CallFromValue \/ CallFromHeader \/ ForToken \/ ReturnSome

Spec == Init /\ [][Next]_vars

---------------------------------------------------------------------------
(* The vocabulary of the properties: a token as the caller wrote it         *)

\* The trimmed text before the first '=' of a token
KeyAsWritten(d) == trim(d.key)

\* The trimmed text after the first '=' of a token, None when it has no '='
ValueAsWritten(d) == IF d.val = None THEN None ELSE Some(trim(d.val[1]))

IsDigitString(v) ==
    /\ v # <<>>
    /\ \A j \in 1..Len(v) : v[j] \in {"0","1","2","3","4","5","6","7","8","9"}

\* A base-10 non-negative integer: digits, possibly after a '+'
IsDecimal(v) ==
    \/ IsDigitString(v)
    \/ Len(v) >= 2 /\ v[1] = "+" /\ IsDigitString(Tail(v))

DigitValue(c) ==
    CASE c = "0" -> 0 [] c = "1" -> 1 [] c = "2" -> 2 [] c = "3" -> 3
      [] c = "4" -> 4 [] c = "5" -> 5 [] c = "6" -> 6 [] c = "7" -> 7
      [] c = "8" -> 8 [] c = "9" -> 9

RECURSIVE StripZeros(_)
StripZeros(n) == IF Len(n) > 1 /\ n[1] = 0 THEN StripZeros(Tail(n)) ELSE n

\* The number a decimal denotes, as a canonical digit sequence
NumberOf(v) ==
    LET ds == IF v[1] = "+" THEN Tail(v) ELSE v
    IN  StripZeros([j \in 1..Len(ds) |-> DigitValue(ds[j])])

\* n <= 2^64 - 1 = 18446744073709551615
FitsU64(n) ==
    LET m == <<1,8,4,4,6,7,4,4,0,7,3,7,0,9,5,5,1,6,1,5>>
    IN  \/ Len(n) < 20
        \/ /\ Len(n) = 20
           /\ \A j \in 1..20 : n[j] > m[j] => \E h \in 1..(j - 1) : n[h] < m[h]

Seconds(n) == [secs |-> n, nanos |-> 0]

Unrecognized(key) == key \notin (CachabilityKeys \cup NumericKeys \cup FlagKeys)

DurationField(r, key) ==
    CASE key = k_max_age -> r.max_age
      [] key = k_max_stale -> r.max_stale
      [] key = k_min_fresh -> r.min_fresh
      [] key = k_stale_while_revalidate -> r.stale_while_revalidate
      [] key = k_stale_if_error -> r.stale_if_error

WithDurationField(r, key, x) ==
    CASE key = k_max_age -> [r EXCEPT !.max_age = x]
      [] key = k_max_stale -> [r EXCEPT !.max_stale = x]
      [] key = k_min_fresh -> [r EXCEPT !.min_fresh = x]
      [] key = k_stale_while_revalidate -> [r EXCEPT !.stale_while_revalidate = x]
      [] key = k_stale_if_error -> [r EXCEPT !.stale_if_error = x]

Flag(r, key) ==
    CASE key = k_must_revalidate -> r.must_revalidate
      [] key = k_proxy_revalidate -> r.proxy_revalidate
      [] key = k_immutable -> r.immutable
      [] key = k_no_store -> r.no_store
      [] key = k_no_transform -> r.no_transform

Variant(key) ==
    CASE key = k_public -> "Public"
      [] key = k_private -> "Private"
      [] key = k_no_cache -> "NoCache"
      [] key = k_only_if_cached -> "OnlyIfCached"

\* from_value is visiting token number pos of the list
Visiting == call = "from_value" /\ pc = "loop" /\ pos <= Len(dirs)

\* from_value has returned
Returned == call = "from_value" /\ pc = "done"

Occurs(key) == \E j \in 1..Len(dirs) : KeyAsWritten(dirs[j]) = key

---------------------------------------------------------------------------
(* C1: whenever a token of the list given to from_value has one of the     *)
(* five numeric keys and either no value or a value (the trimmed text      *)
(* after its first '=') that is not a base-10 non-negative integer,        *)
(* from_value returns None, wherever the token stands in the list.         *)
C1_BadNumericAborts ==
    (/\ Returned
     /\ \E j \in 1..Len(dirs) :
            /\ KeyAsWritten(dirs[j]) \in NumericKeys
            /\ \/ dirs[j].val = None
               \/ ~IsDecimal(ValueAsWritten(dirs[j])[1]))
    => result = None

\* The same statement for the tokens with at most one '=': the only
\* lists that escape C1 are those C2 is about.
BadNumericAbortsWithOneEq ==
    (/\ Returned
     /\ \E j \in 1..Len(dirs) :
            /\ KeyAsWritten(dirs[j]) \in NumericKeys
            /\ \/ dirs[j].val = None
               \/ /\ ~IsDecimal(ValueAsWritten(dirs[j])[1])
                  /\ \A h \in 1..Len(dirs[j].val[1]) : dirs[j].val[1][h] # "=")
    => result = None

(* C2: the key the match dispatches on is the trimmed text before the      *)
(* first '=' of the token and the value is the whole trimmed remainder     *)
(* after it; so a numeric token whose remainder holds another '=', such as *)
(* "max-age=60=5", makes from_value return None.                           *)
C2_SplitOnFirstEq ==
    /\ (Visiting /\ pos <= Len(tokens)) =>
           /\ key_of(tokens[pos]) = KeyAsWritten(dirs[pos])
           /\ val_of(tokens[pos]) = ValueAsWritten(dirs[pos])
    /\ (/\ Returned
        /\ \E j \in 1..Len(dirs) :
               /\ KeyAsWritten(dirs[j]) \in NumericKeys
               /\ dirs[j].val # None
               /\ \E h \in 1..Len(dirs[j].val[1]) : dirs[j].val[1][h] = "=")
       => result = None

C3_Step ==
    (/\ Visiting
     /\ KeyAsWritten(dirs[pos]) \in NumericKeys
     /\ dirs[pos].val # None
     /\ IsDecimal(ValueAsWritten(dirs[pos])[1])
     /\ pc' = "loop")
    => ret' = WithDurationField(ret, KeyAsWritten(dirs[pos]),
                  Some(Seconds(NumberOf(ValueAsWritten(dirs[pos])[1]))))

C3_Final ==
    (Returned /\ result # None) =>
        \A k \in NumericKeys : ~Occurs(k) => DurationField(result[1], k) = None

(* C3: while from_value has not failed, a token with a numeric key and a   *)
(* decimal value n leaves the accumulator as it was except for the field   *)
(* of that key, which becomes n seconds; and in a record from_value        *)
(* returns, the duration field of a key that no token has is None.         *)
C3_NumericSetsItsField == [][C3_Step]_vars /\ []C3_Final

\* "public,stale-while-revalidate=60" has returned its record
C3_Witness ==
    /\ Returned
    /\ dirs = <<Bare(k_public), WithVal(k_stale_while_revalidate, v_60)>>
    /\ result = Some([Default EXCEPT
                         !.cachability = Some("Public"),
                         !.stale_while_revalidate = Some(Seconds(<<6, 0>>))])

RECURSIVE LastCachability(_)
LastCachability(ds) ==
    IF ds = <<>> THEN None
    ELSE IF KeyAsWritten(ds[Len(ds)]) \in CachabilityKeys
         THEN Some(Variant(KeyAsWritten(ds[Len(ds)])))
         ELSE LastCachability(SubSeq(ds, 1, Len(ds) - 1))

C4_Step ==
    (Visiting /\ KeyAsWritten(dirs[pos]) \in CachabilityKeys) => pc' = "loop"

C4_Final ==
    (Returned /\ result # None) =>
        result[1].cachability = LastCachability(dirs)

(* C4: a token with a cachability key never makes from_value fail, and the *)
(* cachability of a record from_value returns is the variant of the last   *)
(* token with a cachability key, None when there is no such token.         *)
C4_LastCachabilityWins == [][C4_Step]_vars /\ []C4_Final

\* "private,public" has returned Public
C4_Witness ==
    /\ Returned
    /\ dirs = <<Bare(k_private), Bare(k_public)>>
    /\ result # None
    /\ result[1].cachability = Some("Public")

Colons(s) == {j \in 1..Len(s) : s[j] = ":"}

\* The text before the first ':' of a line, the whole line when it has none
FirstSegment(s) ==
    IF Colons(s) = {} THEN s
    ELSE SubSeq(s, 1, (CHOOSE j \in Colons(s) : \A h \in Colons(s) : j <= h) - 1)

\* The text after the first ':' of a line that has one
AfterFirstColon(s) ==
    SubSeq(s, (CHOOSE j \in Colons(s) : \A h \in Colons(s) : j <= h) + 1, Len(s))

(* C5: from_header returns None for every line that does not hold exactly  *)
(* one ':' and for every line whose text before the first ':' is not,      *)
(* once trimmed, exactly "Cache-Control".                                  *)
C5_HeaderRejected ==
    (/\ call = "from_header"
     /\ pc # "start"
     /\ \/ Cardinality(Colons(input)) # 1
        \/ trim(FirstSegment(input)) # k_Cache_Control)
    => (pc = "done" /\ result = None)

\* "Cache-Control:max-age=6:0", a colon inside the value, was rejected
C5_Witness ==
    /\ call = "from_header"
    /\ pc = "done"
    /\ input = k_Cache_Control \o <<":">> \o k_max_age \o <<"=">> \o v_6_colon_0
    /\ result = None

(* C6: for a line "Cache-Control:" followed by a value without ':',        *)
(* from_header returns what from_value returns on the trimmed value, a     *)
(* record or None alike, and the default record when the value is empty    *)
(* or white space.                                                         *)
C6_HeaderDelegates ==
    (/\ call = "from_header"
     /\ pc = "done"
     /\ Cardinality(Colons(input)) = 1
     /\ FirstSegment(input) = k_Cache_Control)
    => /\ result = from_value(trim(AfterFirstColon(input)))
       /\ trim(AfterFirstColon(input)) = <<>> => result = Some(Default)

\* "Cache-Control: " has returned the default record
C6_Witness ==
    /\ call = "from_header"
    /\ pc = "done"
    /\ input = k_Cache_Control \o <<":", " ">>
    /\ result = Some(Default)

C7_Step ==
    (Visiting /\ Unrecognized(KeyAsWritten(dirs[pos])))
    => (pc' = "loop" /\ ret' = ret)

C7_Final ==
    (Returned /\ \A j \in 1..Len(dirs) : Unrecognized(KeyAsWritten(dirs[j])))
    => result = Some(Default)

(* C7: a token whose key is not one of the fourteen directive names, the   *)
(* empty key and other spellings such as "Public" or "Max-Age" included,   *)
(* with or without a value, does not make from_value fail and leaves the   *)
(* accumulator as it was; a list of such tokens only, the empty string     *)
(* among them, gives the default record.                                   *)
C7_UnknownKeysIgnored == [][C7_Step]_vars /\ []C7_Final

\* "Max-Age=abc,Public" has returned the default record
C7_Witness ==
    /\ Returned
    /\ dirs = <<WithVal(k_Max_Age, v_abc), Bare(k_Public)>>
    /\ result = Some(Default)

AllFlagsFalse(r) == \A k \in FlagKeys : ~Flag(r, k)

C8_Start == (pc = "loop" /\ pos = 1) => AllFlagsFalse(ret)

C8_Step ==
    /\ \A k \in FlagKeys : Flag(ret, k) => Flag(ret', k)
    /\ (Visiting /\ KeyAsWritten(dirs[pos]) \in FlagKeys)
       => (pc' = "loop" /\ Flag(ret', KeyAsWritten(dirs[pos])))

C8_Final ==
    (Returned /\ result # None) =>
        \A k \in FlagKeys : Flag(result[1], k) <=> Occurs(k)

(* C8: the five flags are false when the loop starts; a token with a flag  *)
(* key, with or without a value, sets its flag and does not make           *)
(* from_value fail; no token resets a flag that is set; and in a record    *)
(* from_value returns a flag is set exactly when a token has its key.      *)
C8_Flags == []C8_Start /\ [][C8_Step]_vars /\ []C8_Final

\* "no-store=abc,max-age=60" has returned a record with no_store alone set
C8_Witness ==
    /\ Returned
    /\ dirs = <<WithVal(k_no_store, v_abc), WithVal(k_max_age, v_60)>>
    /\ result # None
    /\ result[1].no_store
    /\ ~result[1].no_transform

(* C9: s_max_age is None in the accumulator at every step and in every     *)
(* record from_value or from_header returns; "s-maxage" and "s-max-age"    *)
(* are keys like any unknown one.                                          *)
C9_SMaxAgeNeverSet ==
    /\ ret.s_max_age = None
    /\ result # None => result[1].s_max_age = None

\* "s-max-age=abc,max-age=60" has returned a record
C9_Witness ==
    /\ Returned
    /\ dirs = <<WithVal(k_s_max_age, v_abc), WithVal(k_max_age, v_60)>>
    /\ result # None
    /\ result[1].max_age = Some(Seconds(<<6, 0>>))

C10_Step ==
    (/\ Visiting
     /\ KeyAsWritten(dirs[pos]) \in NumericKeys
     /\ dirs[pos].val # None
     /\ IsDigitString(ValueAsWritten(dirs[pos])[1]))
    => IF FitsU64(NumberOf(ValueAsWritten(dirs[pos])[1]))
       THEN /\ pc' = "loop"
            /\ DurationField(ret', KeyAsWritten(dirs[pos]))
                   = Some(Seconds(NumberOf(ValueAsWritten(dirs[pos])[1])))
       ELSE /\ pc' = "done"
            /\ result' = None

(* C10: a numeric token whose value is a string of digits stores the       *)
(* number the digits denote, unchanged, when it is at most 2^64 - 1, and   *)
(* makes from_value return None when it is larger.                         *)
C10_ParsedAsU64 == [][C10_Step]_vars

\* "max-age=18446744073709551615" has returned 2^64 - 1 seconds
C10_Witness ==
    /\ Returned
    /\ dirs = <<WithVal(k_max_age, v_u64_max)>>
    /\ result # None
    /\ result[1].max_age =
           Some(Seconds(<<1,8,4,4,6,7,4,4,0,7,3,7,0,9,5,5,1,6,1,5>>))

=============================================================================
